---- MODULE Spec2Model ----
(***************************************************************************)
(* Model of the toxcbt echo bot (root command, package main):              *)
(* parseBootstrapEnv, defaultBootstrap, main (start-up, callbacks, the     *)
(* select loop, deferred Kill) and save, together with the two files save  *)
(* touches (the save path and path+".tmp").                                *)
(*                                                                         *)
(* Go strings are modelled as sequences of one-character strings, so that  *)
(* Split, TrimSpace, ParseUint and hex decoding are computed character by  *)
(* character.  Savedata blobs are sequences of bytes.                      *)
(***************************************************************************)
EXTENDS Integers, Sequences, FiniteSets, TLC

VARIABLES
    pc,          \* position of the process in main / save
    run,         \* number of the current process execution (1..MaxRuns)
    exitStatus,  \* -1 while the process runs, else its exit status
    env,         \* value of TOX_BOOTSTRAP_NODES
    nodes,       \* main's local `nodes`
    bootCalls,   \* the t.Bootstrap calls made so far, in order
    file,        \* the save path: [exists, bytes]
    tmp,         \* path+".tmp": [exists, bytes]
    loadErr,     \* main's `err` from tox.LoadSavedata
    optsData,    \* opts.Savedata_data, and whether Savedata_type was set
    engAlive,    \* the tox instance exists and is not killed
    engInit,     \* the savedata the instance was constructed from
    engState,    \* what t.GetSavedata() returns now
    cbRequest,   \* friend-request callback registered
    cbMessage,   \* friend-message callback registered
    notifying,   \* signal.NotifyContext is in effect
    ctxDone,     \* ctx.Done() is closed (a signal was delivered)
    ticker,      \* saveTick is running
    tickC,       \* saveTick.C holds a tick (buffer of one)
    caller,      \* which call site of save is active: "none", "periodic", "final"
    data,        \* save's local `data`
    preFile,     \* history: content of the save path when save was entered
    preTmp,      \* history: content of the temp path when save was entered
    renamed,     \* history: "none", "ok", "failed" - outcome of os.Rename in this save
    removed,     \* history: "none", "ok", "failed" - outcome of os.Remove in this save
    finalSaves,  \* history: number of save calls from the shutdown branch
    lastSaved,   \* history: data and run of the latest save whose rename succeeded
    inEvent,     \* the event t.Iterate() is delivering (NoEvent outside a callback)
    sends,       \* the FriendSendMessage calls made for inEvent, in order
    accepts      \* the FriendAddNorequest calls made for inEvent, in order

vars == <<pc, run, exitStatus, env, nodes, bootCalls, file, tmp, loadErr,
          optsData, engAlive, engInit, engState, cbRequest, cbMessage,
          notifying, ctxDone, ticker, tickC, caller, data, preFile, preTmp,
          renamed, removed, finalSaves, lastSaved, inEvent, sends, accepts>>

(***************************************************************************)
(* Bounds of the model.                                                    *)
(***************************************************************************)
\* entries per TOX_BOOTSTRAP_NODES value in the parser specification
MaxEntries == 3
\* length of a savedata blob
MaxBlobLen == 2
\* process executions (start, then restarts over the same files)
MaxRuns == 2

(***************************************************************************)
(* Strings.                                                                *)
(***************************************************************************)
\* unicode.IsSpace, restricted to the characters the model uses
WhiteSpace == {" ", "\t", "\n"}

Digits == {"0", "1", "2", "3", "4", "5", "6", "7", "8", "9"}

HexLetters == {"a", "b", "c", "d", "e", "f", "A", "B", "C", "D", "E", "F"}

RECURSIVE TrimLeft(_)
TrimLeft(s) ==
    IF s # <<>> /\ Head(s) \in WhiteSpace THEN TrimLeft(Tail(s)) ELSE s

RECURSIVE TrimRight(_)
TrimRight(s) ==
    IF s # <<>> /\ s[Len(s)] \in WhiteSpace
    THEN TrimRight(SubSeq(s, 1, Len(s) - 1))
    ELSE s

\* strings.TrimSpace
TrimSpace(s) == TrimRight(TrimLeft(s))

\* strings.Split(s, sep) for a one-character sep: n separators give n+1 pieces
RECURSIVE SplitAcc(_, _, _, _)
SplitAcc(s, sep, cur, acc) ==
    IF s = <<>> THEN Append(acc, cur)
    ELSE IF Head(s) = sep
         THEN SplitAcc(Tail(s), sep, <<>>, Append(acc, cur))
         ELSE SplitAcc(Tail(s), sep, Append(cur, Head(s)), acc)

Split(s, sep) == SplitAcc(s, sep, <<>>, <<>>)

\* strings.Join(parts, sep)
RECURSIVE Join(_, _)
Join(parts, sep) ==
    IF parts = <<>> THEN <<>>
    ELSE IF Len(parts) = 1 THEN parts[1]
    ELSE parts[1] \o <<sep>> \o Join(Tail(parts), sep)

\* strings.ReplaceAll(s, old, "") for a one-character old
RECURSIVE RemoveAll(_, _)
RemoveAll(s, old) ==
    IF s = <<>> THEN <<>>
    ELSE IF Head(s) = old THEN RemoveAll(Tail(s), old)
    ELSE <<Head(s)>> \o RemoveAll(Tail(s), old)

DigitVal(c) ==
    CASE c = "0" -> 0 [] c = "1" -> 1 [] c = "2" -> 2 [] c = "3" -> 3
      [] c = "4" -> 4 [] c = "5" -> 5 [] c = "6" -> 6 [] c = "7" -> 7
      [] c = "8" -> 8 [] c = "9" -> 9

\* the largest value of bitSize 16
MaxUint16 == 65535

\* strconv.ParseUint(s, 10, 16): [err |-> TRUE] on a syntax or range error.
\* The accumulator saturates above the range, as the range error is final.
RECURSIVE ParseUintAcc(_, _)
ParseUintAcc(s, n) ==
    IF s = <<>> THEN [err |-> n > MaxUint16, val |-> n]
    ELSE IF Head(s) \notin Digits THEN [err |-> TRUE, val |-> 0]
    ELSE LET m == n * 10 + DigitVal(Head(s))
         IN  ParseUintAcc(Tail(s), IF m > MaxUint16 THEN MaxUint16 + 1 ELSE m)

ParseUint(s) ==
    IF s = <<>> THEN [err |-> TRUE, val |-> 0] ELSE ParseUintAcc(s, 0)

\* hex.DecodeString(s) returns a nil error
HexDecodeOk(s) ==
    /\ Len(s) % 2 = 0
    /\ \A i \in 1..Len(s) : s[i] \in Digits \cup HexLetters

(***************************************************************************)
(* parseBootstrapEnv and defaultBootstrap.                                 *)
(***************************************************************************)
\* parseItem with parts[2] alone as the key in place of the joined rest
parseItem_KeyThirdField(raw) ==
    LET item == TrimSpace(raw)
        parts == Split(item, ":")
    IN  IF item = <<>> THEN <<>>
        ELSE IF Len(parts) < 3 THEN <<>>
        ELSE LET host == TrimSpace(parts[1])
                 portStr == TrimSpace(parts[2])
                 p64 == ParseUint(portStr)
                 pubKey == RemoveAll(TrimSpace(parts[3]), " ")
             IN  IF p64.err THEN <<>>
                 ELSE IF ~HexDecodeOk(pubKey) THEN <<>>
                 ELSE <<[host |-> host, port |-> p64.val, key |-> pubKey]>>

\* the body of the loop for one item: the node appended, or <<>> on continue
parseItem(raw) ==
    LET item == TrimSpace(raw)
        parts == Split(item, ":")
    IN  IF item = <<>> THEN <<>>
        ELSE IF Len(parts) < 3 THEN <<>>
        ELSE LET host == TrimSpace(parts[1])
                 portStr == TrimSpace(parts[2])
                 joined == TrimSpace(Join(SubSeq(parts, 3, Len(parts)), ":"))
                 p64 == ParseUint(portStr)
                 pubKey == RemoveAll(joined, " ")
             IN  IF p64.err THEN <<>>
                 ELSE IF ~HexDecodeOk(pubKey) THEN <<>>
                 ELSE <<[host |-> host, port |-> p64.val, key |-> pubKey]>>

\* parseItems with break in place of continue: the loop ends at the first
\* item that is skipped
RECURSIVE parseItems_Break(_, _)
parseItems_Break(items, out) ==
    IF items = <<>> THEN out
    ELSE IF parseItem(Head(items)) = <<>> THEN out
    ELSE parseItems_Break(Tail(items), out \o parseItem(Head(items)))

RECURSIVE parseItems(_, _)
parseItems(items, out) ==
    IF items = <<>> THEN out
    ELSE parseItems(Tail(items), out \o parseItem(Head(items)))

parseBootstrapEnv(str) ==
    LET s == TrimSpace(str)
    IN  IF s = <<>> THEN <<>> ELSE parseItems(Split(s, ","), <<>>)

defaultBootstrap ==
    << [host |-> <<"t", "o", "x", ".", "a", "b", "i", "l", "i", "n", "s", "k",
                   "i", ".", "c", "o", "m">>,
        port |-> 33445,
        key |-> <<"1", "0", "C", "0", "0", "E", "B", "2", "5", "0", "C", "3",
                  "2", "3", "3", "E", "3", "4", "3", "E", "2", "A", "E", "B",
                  "A", "0", "7", "1", "1", "5", "A", "5", "C", "2", "8", "9",
                  "2", "0", "E", "9", "C", "8", "D", "2", "9", "4", "9", "2",
                  "F", "6", "D", "0", "0", "B", "2", "9", "0", "4", "9", "E",
                  "D", "C", "7", "E">>],
       [host |-> <<"1", "4", "4", ".", "2", "1", "7", ".", "1", "6", "7", ".",
                   "7", "3">>,
        port |-> 33445,
        key |-> <<"7", "E", "5", "6", "6", "8", "E", "0", "E", "E", "0", "9",
                  "E", "1", "9", "F", "3", "2", "0", "A", "D", "4", "7", "9",
                  "0", "2", "4", "1", "9", "3", "3", "1", "F", "F", "E", "E",
                  "1", "4", "7", "B", "B", "3", "6", "0", "6", "7", "6", "9",
                  "C", "F", "B", "E", "9", "2", "1", "A", "2", "A", "2", "F",
                  "D", "3", "4", "C">>] >>

(***************************************************************************)
(* The cmd/toxcbt entry point (src/cmd/toxcbt/main.go), where it differs   *)
(* from the root command: its bootstrap nodes.                             *)
(***************************************************************************)
\* lines 65-72: the node list, a literal; os.Getenv("TOX_BOOTSTRAP_NODES")
\* is not read anywhere in this file
bootstrapNodes ==
    << [host |-> <<"t", "o", "x", ".", "a", "b", "i", "l", "i", "n", "s", "k",
                   "i", ".", "c", "o", "m">>,
        port |-> 33445,
        key |-> <<"1", "0", "C", "0", "0", "E", "B", "2", "5", "0", "C", "3",
                  "2", "3", "3", "E", "3", "4", "3", "E", "2", "A", "E", "B",
                  "A", "0", "7", "1", "1", "5", "A", "5", "C", "2", "8", "9",
                  "2", "0", "E", "9", "C", "8", "D", "2", "9", "4", "9", "2",
                  "F", "6", "D", "0", "0", "B", "2", "9", "0", "4", "9", "E",
                  "D", "C", "7", "E">>],
       [host |-> <<"1", "4", "4", ".", "2", "1", "7", ".", "1", "6", "7", ".",
                   "7", "3">>,
        port |-> 33445,
        key |-> <<"7", "E", "5", "6", "6", "8", "E", "0", "E", "E", "0", "9",
                  "E", "1", "9", "F", "3", "2", "0", "A", "D", "4", "7", "9",
                  "0", "2", "4", "1", "9", "3", "3", "1", "F", "F", "E", "E",
                  "1", "4", "7", "B", "B", "3", "6", "0", "6", "7", "6", "9",
                  "C", "F", "B", "E", "9", "2", "1", "A", "2", "A", "2", "F",
                  "D", "3", "4", "C">>] >>

\* lines 74-85: one t.Bootstrap call per node of the literal whose key
\* decodes as hex, in order
RECURSIVE cmdBootstrapCalls(_, _)
cmdBootstrapCalls(ns, out) ==
    IF ns = <<>> THEN out
    ELSE IF ~HexDecodeOk(Head(ns).key) THEN cmdBootstrapCalls(Tail(ns), out)
    ELSE cmdBootstrapCalls(Tail(ns), Append(out, Head(ns)))

(***************************************************************************)
(* The values the model draws its inputs from.                             *)
(***************************************************************************)
\* savedata blobs: one byte string of each length 0..MaxBlobLen, the i-th byte
\* being i, so that a proper prefix of a blob is never the blob itself
Blobs == {[i \in 1..k |-> i] : k \in 0..MaxBlobLen}

NoFile == [exists |-> FALSE, bytes |-> <<>>]

FileOf(b) == [exists |-> TRUE, bytes |-> b]

NoData == [set |-> FALSE, bytes |-> <<>>]

NoEvent == [kind |-> "none", friend |-> 0, text |-> <<>>]

\* entries of TOX_BOOTSTRAP_NODES: valid ones, and one for each way to be skipped
Entries ==
    { <<"h", ":", "8", "0", ":", "A", "B">>,
      <<" ", "g", " ", ":", " ", "6", "5", "5", "3", "5", " ", ":", " ", "a",
        " ", "B", " ">>,
      <<":", "0", "0", "7", ":">>,
      <<"h", ":", "8", "0">>,
      <<"h", ":", "6", "5", "5", "3", "6", ":", "A", "B">>,
      <<"h", ":", "-", "1", ":", "A", "B">>,
      <<"h", ":", "8", "0", ":", "A", "B", "C">>,
      <<"h", ":", "8", "0", ":", "A", "G">>,
      <<"h", ":", "8", "0", ":", "A", "B", ":", "C", "D">>,
      <<" ">> }

\* entries of four and five colon-separated fields
ColonEntries ==
    { <<"h", ":", "8", "0", ":", "A", "B", ":">>,
      <<"h", ":", "8", "0", ":", ":", "A", "B">>,
      <<"h", ":", "8", "0", ":", "A", ":", "B">>,
      <<"h", ":", "8", "0", ":", " ", ":", " ">>,
      <<":", ":", "8", "0", ":", "A", "B">>,
      <<"h", ":", "8", "0", ":", "A", "B", ":", ":">> }

\* each entry of ColonEntries after the valid entry "h:80:AB"
ColonInputs ==
    {Join(<<(<<"h", ":", "8", "0", ":", "A", "B">>), e>>, ",") :
        e \in ColonEntries}

\* every comma-separated list of 0..MaxEntries entries
ParseInputs ==
    {Join(es, ",") : es \in UNION {[1..k -> Entries] : k \in 0..MaxEntries}}

\* the values of TOX_BOOTSTRAP_NODES the life-cycle specification starts from:
\* unset, and "h:80:AB,h:80"
SpecEnvs ==
    { <<>>,
      <<"h", ":", "8", "0", ":", "A", "B", ",", "h", ":", "8", "0">> }

\* inbound message texts
InMessages ==
    { <<"/", "p", "i", "n", "g">>,
      <<" ", "/", "p", "i", "n", "g", "\n">>,
      <<"/", "p", "i", "n", "g", " ", "x">>,
      <<"/", "P", "I", "N", "G">>,
      <<"/", "i", "d">>,
      <<"\t", "/", "i", "d", " ">>,
      <<" ", " ", "h", "e", "l", "l", "o", " ", " ">>,
      <<>> }

\* friend handles
Friends == {0, 1}

\* public keys of requesters
PubKeys == {<<"A", "1">>, <<"B", "2">>}

(***************************************************************************)
(* The friend callbacks registered in main.                                *)
(***************************************************************************)
\* t.SelfGetAddress()
SelfGetAddress == <<"7", "6", "A", "B">>

\* the friend-request callback: the FriendAddNorequest calls it makes
onFriendRequest(pubKey) == <<pubKey>>

\* onFriendMessage matching the commands by prefix (strings.HasPrefix)
onFriendMessage_Prefix(friend, message) ==
    LET msg == TrimSpace(message)
        HasPrefix(t, pre) == Len(t) >= Len(pre) /\ SubSeq(t, 1, Len(pre)) = pre
    IN  IF HasPrefix(msg, <<"/", "p", "i", "n", "g">>)
        THEN <<[friend |-> friend, text |-> <<"p", "o", "n", "g">>]>>
        ELSE IF HasPrefix(msg, <<"/", "i", "d">>)
        THEN <<[friend |-> friend,
                text |-> <<"m", "y", " ", "t", "o", "x", " ", "i", "d", ":",
                           " ">> \o SelfGetAddress]>>
        ELSE <<[friend |-> friend,
                text |-> <<"e", "c", "h", "o", ":", " ">> \o message]>>

\* onFriendMessage echoing the trimmed msg instead of message
onFriendMessage_EchoTrimmed(friend, message) ==
    LET msg == TrimSpace(message)
    IN  IF msg = <<"/", "p", "i", "n", "g">>
        THEN <<[friend |-> friend, text |-> <<"p", "o", "n", "g">>]>>
        ELSE IF msg = <<"/", "i", "d">>
        THEN <<[friend |-> friend,
                text |-> <<"m", "y", " ", "t", "o", "x", " ", "i", "d", ":",
                           " ">> \o SelfGetAddress]>>
        ELSE <<[friend |-> friend,
                text |-> <<"e", "c", "h", "o", ":", " ">> \o msg]>>

\* the friend-message callback: the FriendSendMessage calls it makes
onFriendMessage(friend, message) ==
    LET msg == TrimSpace(message)
    IN  IF msg = <<"/", "p", "i", "n", "g">>
        THEN <<[friend |-> friend, text |-> <<"p", "o", "n", "g">>]>>
        ELSE IF msg = <<"/", "i", "d">>
        THEN <<[friend |-> friend,
                text |-> <<"m", "y", " ", "t", "o", "x", " ", "i", "d", ":",
                           " ">> \o SelfGetAddress]>>
        ELSE <<[friend |-> friend,
                text |-> <<"e", "c", "h", "o", ":", " ">> \o message]>>

(***************************************************************************)
(* The process: main, from its first statement to its deferred calls.      *)
(***************************************************************************)
\* the state of a process that has executed nothing yet
FreshProcess ==
    /\ nodes = <<>>
    /\ bootCalls = <<>>
    /\ loadErr = FALSE
    /\ optsData = NoData
    /\ engAlive = FALSE
    /\ engInit = NoData
    /\ engState = <<>>
    /\ cbRequest = FALSE
    /\ cbMessage = FALSE
    /\ notifying = FALSE
    /\ ctxDone = FALSE
    /\ ticker = FALSE
    /\ tickC = FALSE
    /\ caller = "none"
    /\ data = <<>>
    /\ renamed = "none"
    /\ removed = "none"
    /\ finalSaves = 0
    /\ inEvent = NoEvent
    /\ sends = <<>>
    /\ accepts = <<>>

ResetProcess ==
    /\ nodes' = <<>>
    /\ bootCalls' = <<>>
    /\ loadErr' = FALSE
    /\ optsData' = NoData
    /\ engAlive' = FALSE
    /\ engInit' = NoData
    /\ engState' = <<>>
    /\ cbRequest' = FALSE
    /\ cbMessage' = FALSE
    /\ notifying' = FALSE
    /\ ctxDone' = FALSE
    /\ ticker' = FALSE
    /\ tickC' = FALSE
    /\ caller' = "none"
    /\ data' = <<>>
    /\ renamed' = "none"
    /\ removed' = "none"
    /\ finalSaves' = 0
    /\ inEvent' = NoEvent
    /\ sends' = <<>>
    /\ accepts' = <<>>

fsVars == <<file, tmp, lastSaved>>
saveVars == <<caller, data, preFile, preTmp, renamed, removed, finalSaves>>
startVars == <<nodes, bootCalls, loadErr, optsData, engInit>>
cbVars == <<cbRequest, cbMessage>>
sigVars == <<notifying, ctxDone, ticker, tickC>>
tickVars == <<inEvent, sends, accepts>>
procVars == <<run, exitStatus, env>>

Init ==
    /\ pc = "mkdir"
    /\ run = 1
    /\ exitStatus = -1
    /\ env \in SpecEnvs
    /\ file \in {NoFile} \cup {FileOf(b) : b \in Blobs}
    /\ tmp = NoFile
    /\ preFile = file
    /\ preTmp = tmp
    /\ lastSaved = [set |-> FALSE, bytes |-> <<>>, run |-> 0]
    /\ FreshProcess

\* line 97: os.MkdirAll(dataDir); log.Fatalf on an error
MkdirAll ==
    /\ pc = "mkdir"
    /\ \E err \in BOOLEAN :
          IF err THEN pc' = "aborted" /\ exitStatus' = 1
                 ELSE pc' = "load" /\ exitStatus' = exitStatus
    /\ UNCHANGED <<run, env, fsVars, saveVars, startVars, cbVars, sigVars,
                   tickVars, engAlive, engState>>

\* LoadSavedata with opts.Savedata_type and Savedata_data never set
LoadSavedata_NotUsed ==
    /\ pc = "load"
    /\ \E err \in BOOLEAN :
          /\ ~file.exists => err
          /\ loadErr' = err
          /\ optsData' = NoData
    /\ pc' = "newtox"
    /\ UNCHANGED <<procVars, fsVars, saveVars, nodes, bootCalls, engInit,
                   cbVars, sigVars, tickVars, engAlive, engState>>

\* LoadSavedata with log.Fatal on a read error
LoadSavedata_FatalOnError ==
    /\ pc = "load"
    /\ \E err \in BOOLEAN :
          /\ ~file.exists => err
          /\ loadErr' = err
          /\ optsData' = IF ~err /\ Len(file.bytes) > 0
                         THEN [set |-> TRUE, bytes |-> file.bytes]
                         ELSE NoData
          /\ IF err THEN pc' = "aborted" /\ exitStatus' = 1
                    ELSE pc' = "newtox" /\ exitStatus' = exitStatus
    /\ UNCHANGED <<run, env, fsVars, saveVars, nodes, bootCalls, engInit,
                   cbVars, sigVars, tickVars, engAlive, engState>>

\* lines 104-110: tox.LoadSavedata(saveFile); the data is used only when the
\* read returned no error and at least one byte
LoadSavedata ==
    /\ pc = "load"
    /\ \E err \in BOOLEAN :
          /\ ~file.exists => err
          /\ loadErr' = err
          /\ optsData' = IF ~err /\ Len(file.bytes) > 0
                         THEN [set |-> TRUE, bytes |-> file.bytes]
                         ELSE NoData
    /\ pc' = "newtox"
    /\ UNCHANGED <<procVars, fsVars, saveVars, nodes, bootCalls, engInit,
                   cbVars, sigVars, tickVars, engAlive, engState>>

\* NewTox with a plain return in place of log.Fatal on nil: main returns
\* and the process exits with status 0
NewTox_ReturnOnNil ==
    /\ pc = "newtox"
    /\ \/ /\ pc' = "exited"
          /\ exitStatus' = 0
          /\ UNCHANGED <<engAlive, engInit, engState>>
       \/ /\ pc' = "setself"
          /\ engAlive' = TRUE
          /\ engInit' = optsData
          /\ IF optsData.set THEN engState' = optsData.bytes
                             ELSE engState' \in Blobs
          /\ UNCHANGED exitStatus
    /\ UNCHANGED <<run, env, fsVars, saveVars, nodes, bootCalls, loadErr,
                   optsData, cbVars, sigVars, tickVars>>

\* lines 112-116: tox.NewTox(opts); log.Fatal on nil; defer t.Kill()
NewTox ==
    /\ pc = "newtox"
    /\ \/ /\ pc' = "aborted"
          /\ exitStatus' = 1
          /\ UNCHANGED <<engAlive, engInit, engState>>
       \/ /\ pc' = "setself"
          /\ engAlive' = TRUE
          /\ engInit' = optsData
          /\ IF optsData.set THEN engState' = optsData.bytes
                             ELSE engState' \in Blobs
          /\ UNCHANGED exitStatus
    /\ UNCHANGED <<run, env, fsVars, saveVars, nodes, bootCalls, loadErr,
                   optsData, cbVars, sigVars, tickVars>>

\* lines 118-122: SelfSetName, SelfSetStatusMessage, SelfGetAddress, SelfGetPublicKey
SetSelf ==
    /\ pc = "setself"
    /\ pc' = "resolve"
    /\ UNCHANGED <<procVars, fsVars, saveVars, startVars, cbVars, sigVars,
                   tickVars, engAlive, engState>>

\* resolveNodes falling back to the defaults only when the variable is blank
resolveNodes_BlankOnly(s) ==
    IF TrimSpace(s) = <<>> THEN defaultBootstrap ELSE parseBootstrapEnv(s)

\* lines 125-131: the node list main bootstraps against
resolveNodes(s) ==
    LET parsed == parseBootstrapEnv(s)
    IN  IF Len(parsed) = 0 THEN defaultBootstrap ELSE parsed

Resolve ==
    /\ pc = "resolve"
    /\ nodes' = resolveNodes(env)
    /\ pc' = "bootstrap"
    /\ UNCHANGED <<procVars, fsVars, saveVars, bootCalls, loadErr, optsData,
                   engInit, cbVars, sigVars, tickVars, engAlive, engState>>

\* lines 133-140: one t.Bootstrap call per node, its result only logged
Bootstrap ==
    /\ pc = "bootstrap"
    /\ IF Len(bootCalls) < Len(nodes)
       THEN /\ bootCalls' = Append(bootCalls, nodes[Len(bootCalls) + 1])
            /\ pc' = pc
       ELSE /\ bootCalls' = bootCalls
            /\ pc' = "cbreq"
    /\ UNCHANGED <<procVars, fsVars, saveVars, nodes, loadErr, optsData,
                   engInit, cbVars, sigVars, tickVars, engAlive, engState>>

\* line 143: t.CallbackFriendRequestAdd
RegisterRequest ==
    /\ pc = "cbreq"
    /\ cbRequest' = TRUE
    /\ pc' = "cbmsg"
    /\ UNCHANGED <<procVars, fsVars, saveVars, startVars, cbMessage, sigVars,
                   tickVars, engAlive, engState>>

\* line 155: t.CallbackFriendMessageAdd
RegisterMessage ==
    /\ pc = "cbmsg"
    /\ cbMessage' = TRUE
    /\ pc' = "notify"
    /\ UNCHANGED <<procVars, fsVars, saveVars, startVars, cbRequest, sigVars,
                   tickVars, engAlive, engState>>

\* line 169: signal.NotifyContext(SIGINT, SIGTERM)
NotifyContext ==
    /\ pc = "notify"
    /\ notifying' = TRUE
    /\ pc' = "newticker"
    /\ UNCHANGED <<procVars, fsVars, saveVars, startVars, cbVars, ctxDone,
                   ticker, tickC, tickVars, engAlive, engState>>

\* line 172: time.NewTicker(30 * time.Second)
NewTicker ==
    /\ pc = "newticker"
    /\ ticker' = TRUE
    /\ pc' = "select"
    /\ UNCHANGED <<procVars, fsVars, saveVars, startVars, cbVars, notifying,
                   ctxDone, tickC, tickVars, engAlive, engState>>

(***************************************************************************)
(* The loop of main (lines 177-191).  A Go select with several ready       *)
(* cases takes any one of them; default runs only when none is ready.      *)
(***************************************************************************)
\* SelectDone with the call of save left out of the shutdown branch
SelectDone_NoSave ==
    /\ ctxDone
    /\ caller' = "final"
    /\ finalSaves' = finalSaves
    /\ pc' = "defer_stop"
    /\ UNCHANGED tickC

\* SelectDone taken only when no save-timer tick is pending: the timer case
\* checked first, the shutdown case second
SelectDone_TimerFirst ==
    /\ ctxDone
    /\ ~tickC
    /\ caller' = "final"
    /\ finalSaves' = finalSaves + 1
    /\ pc' = "save_get"
    /\ UNCHANGED tickC

\* line 179: case <-ctx.Done(): the call save(t, saveFile) of line 181
SelectDone ==
    /\ ctxDone
    /\ caller' = "final"
    /\ finalSaves' = finalSaves + 1
    /\ pc' = "save_get"
    /\ UNCHANGED tickC

\* SelectTick taken only when ctx is not cancelled: the shutdown case
\* checked first, the timer case second
SelectTick_AfterDone ==
    /\ ~ctxDone
    /\ tickC
    /\ tickC' = FALSE
    /\ caller' = "periodic"
    /\ finalSaves' = finalSaves
    /\ pc' = "save_get"

\* line 184: case <-saveTick.C: the call save(t, saveFile) of line 185
SelectTick ==
    /\ tickC
    /\ tickC' = FALSE
    /\ caller' = "periodic"
    /\ finalSaves' = finalSaves
    /\ pc' = "save_get"

\* SelectDefault without its being the default case: a tick is run on
\* every pass, whatever is pending
SelectDefault_Always ==
    /\ caller' = "none"
    /\ finalSaves' = finalSaves
    /\ pc' = "iterate"
    /\ UNCHANGED tickC

\* line 187: default
SelectDefault ==
    /\ ~ctxDone
    /\ ~tickC
    /\ caller' = "none"
    /\ finalSaves' = finalSaves
    /\ pc' = "iterate"
    /\ UNCHANGED tickC

Select ==
    /\ pc = "select"
    /\ (SelectDone \/ SelectTick \/ SelectDefault)
    /\ data' = <<>>
    /\ renamed' = "none"
    /\ removed' = "none"
    /\ preFile' = file
    /\ preTmp' = tmp
    /\ UNCHANGED <<procVars, fsVars, startVars, cbVars, notifying, ctxDone,
                   ticker, tickVars, engAlive, engState>>

\* line 188, inside t.Iterate(): the engine delivers a friend request and
\* the callback of lines 143-151 runs
DeliverRequest ==
    /\ pc = "iterate"
    /\ inEvent = NoEvent
    /\ cbRequest
    /\ \E pubKey \in PubKeys :
          /\ inEvent' = [kind |-> "request", friend |-> 0, text |-> pubKey]
          /\ accepts' = onFriendRequest(pubKey)
          /\ sends' = <<>>
    /\ UNCHANGED <<pc, procVars, fsVars, saveVars, startVars, cbVars, sigVars,
                   engAlive, engState>>

\* line 188, inside t.Iterate(): the engine delivers a friend message and
\* the callback of lines 155-167 runs
DeliverMessage ==
    /\ pc = "iterate"
    /\ inEvent = NoEvent
    /\ cbMessage
    /\ \E friend \in Friends, message \in InMessages :
          /\ inEvent' = [kind |-> "message", friend |-> friend,
                         text |-> message]
          /\ sends' = onFriendMessage(friend, message)
          /\ accepts' = <<>>
    /\ UNCHANGED <<pc, procVars, fsVars, saveVars, startVars, cbVars, sigVars,
                   engAlive, engState>>

\* lines 151 and 167: the callback returns into t.Iterate()
CallbackReturn ==
    /\ pc = "iterate"
    /\ inEvent # NoEvent
    /\ inEvent' = NoEvent
    /\ sends' = <<>>
    /\ accepts' = <<>>
    /\ UNCHANGED <<pc, procVars, fsVars, saveVars, startVars, cbVars, sigVars,
                   engAlive, engState>>

\* line 188: t.Iterate() returns; the engine's state (friends, DHT) may have
\* moved during the call
IterateReturn ==
    /\ pc = "iterate"
    /\ inEvent = NoEvent
    /\ engState' \in Blobs
    /\ pc' = "sleep"
    /\ UNCHANGED <<procVars, fsVars, saveVars, startVars, cbVars, sigVars,
                   tickVars, engAlive>>

\* line 189: time.Sleep(t.IterationInterval())
Sleep ==
    /\ pc = "sleep"
    /\ pc' = "select"
    /\ UNCHANGED <<procVars, fsVars, saveVars, startVars, cbVars, sigVars,
                   tickVars, engAlive, engState>>

(***************************************************************************)
(* save (lines 194-213).                                                   *)
(***************************************************************************)
\* AfterSave without the return of line 182: the loop goes on after the
\* final save
AfterSave_NoReturn == "select"

\* where save returns to: the loop (line 185) or main's return (line 182)
AfterSave == IF caller = "periodic" THEN "select" ELSE "defer_stop"

\* SaveGet without the len(data) == 0 return of lines 198-201
SaveGet_NoEmptyCheck ==
    /\ pc = "save_get"
    /\ data' = engState
    /\ pc' = "save_open"
    /\ UNCHANGED <<procVars, fsVars, caller, preFile, preTmp, renamed,
                   removed, finalSaves, startVars, cbVars, sigVars, tickVars,
                   engAlive, engState>>

\* lines 197-201: data := t.GetSavedata(); return when it is empty
SaveGet ==
    /\ pc = "save_get"
    /\ data' = engState
    /\ pc' = IF Len(engState) = 0 THEN AfterSave ELSE "save_open"
    /\ UNCHANGED <<procVars, fsVars, caller, preFile, preTmp, renamed,
                   removed, finalSaves, startVars, cbVars, sigVars, tickVars,
                   engAlive, engState>>

\* SaveOpen with log.Fatal on the error of os.WriteFile
SaveOpen_FatalOnError ==
    /\ pc = "save_open"
    /\ \/ /\ tmp' = FileOf(<<>>)
          /\ pc' = "save_write"
          /\ exitStatus' = exitStatus
       \/ /\ tmp' = tmp
          /\ pc' = "aborted"
          /\ exitStatus' = 1
    /\ UNCHANGED <<run, env, file, lastSaved, saveVars, startVars, cbVars,
                   sigVars, tickVars, engAlive, engState>>

\* line 203, os.WriteFile: open tmp with O_WRONLY|O_CREATE|O_TRUNC
SaveOpen ==
    /\ pc = "save_open"
    /\ \/ /\ tmp' = FileOf(<<>>)
          /\ pc' = "save_write"
       \/ /\ tmp' = tmp
          /\ pc' = AfterSave
    /\ UNCHANGED <<procVars, file, lastSaved, saveVars, startVars, cbVars,
                   sigVars, tickVars, engAlive, engState>>

\* SaveWrite with the error of os.WriteFile ignored: save goes on to the rename
SaveWrite_IgnoreError ==
    /\ pc = "save_write"
    /\ \/ /\ Len(tmp.bytes) < Len(data)
          /\ tmp' = FileOf(Append(tmp.bytes, data[Len(tmp.bytes) + 1]))
          /\ pc' = pc
       \/ /\ Len(tmp.bytes) = Len(data)
          /\ tmp' = tmp
          /\ pc' = "save_rename"
       \/ /\ tmp' = tmp
          /\ pc' = "save_rename"
    /\ UNCHANGED <<procVars, file, lastSaved, saveVars, startVars, cbVars,
                   sigVars, tickVars, engAlive, engState>>

\* SaveWrite that starts the write again after an error
SaveWrite_RetryOnError ==
    /\ pc = "save_write"
    /\ \/ /\ Len(tmp.bytes) < Len(data)
          /\ tmp' = FileOf(Append(tmp.bytes, data[Len(tmp.bytes) + 1]))
          /\ pc' = pc
       \/ /\ Len(tmp.bytes) = Len(data)
          /\ tmp' = tmp
          /\ pc' = "save_rename"
       \/ /\ tmp' = tmp
          /\ pc' = "save_open"
    /\ UNCHANGED <<procVars, file, lastSaved, saveVars, startVars, cbVars,
                   sigVars, tickVars, engAlive, engState>>

\* line 203, os.WriteFile: write the bytes of data, then close; an error at
\* any byte or at close makes save return with tmp as it is
SaveWrite ==
    /\ pc = "save_write"
    /\ \/ /\ Len(tmp.bytes) < Len(data)
          /\ tmp' = FileOf(Append(tmp.bytes, data[Len(tmp.bytes) + 1]))
          /\ pc' = pc
       \/ /\ Len(tmp.bytes) = Len(data)
          /\ tmp' = tmp
          /\ pc' = "save_rename"
       \/ /\ tmp' = tmp
          /\ pc' = AfterSave
    /\ UNCHANGED <<procVars, file, lastSaved, saveVars, startVars, cbVars,
                   sigVars, tickVars, engAlive, engState>>

\* SaveRename without the os.Remove of line 208 on a failed rename
SaveRename_NoRemove ==
    /\ pc = "save_rename"
    /\ \/ /\ file' = tmp
          /\ tmp' = NoFile
          /\ renamed' = "ok"
          /\ lastSaved' = [set |-> TRUE, bytes |-> tmp.bytes, run |-> run]
          /\ pc' = AfterSave
       \/ /\ renamed' = "failed"
          /\ pc' = AfterSave
          /\ UNCHANGED <<file, tmp, lastSaved>>
    /\ UNCHANGED <<procVars, caller, data, preFile, preTmp, removed,
                   finalSaves, startVars, cbVars, sigVars, tickVars, engAlive,
                   engState>>

\* line 207: os.Rename(tmp, path)
SaveRename ==
    /\ pc = "save_rename"
    /\ \/ /\ file' = tmp
          /\ tmp' = NoFile
          /\ renamed' = "ok"
          /\ lastSaved' = [set |-> TRUE, bytes |-> tmp.bytes, run |-> run]
          /\ pc' = AfterSave
       \/ /\ renamed' = "failed"
          /\ pc' = "save_remove"
          /\ UNCHANGED <<file, tmp, lastSaved>>
    /\ UNCHANGED <<procVars, caller, data, preFile, preTmp, removed,
                   finalSaves, startVars, cbVars, sigVars, tickVars, engAlive,
                   engState>>

\* line 208: _ = os.Remove(tmp), its error discarded
SaveRemove ==
    /\ pc = "save_remove"
    /\ \/ tmp' = NoFile /\ removed' = "ok"
       \/ tmp' = tmp /\ removed' = "failed"
    /\ pc' = AfterSave
    /\ UNCHANGED <<procVars, file, lastSaved, caller, data, preFile, preTmp,
                   renamed, finalSaves, startVars, cbVars, sigVars, tickVars,
                   engAlive, engState>>

(***************************************************************************)
(* main returns (line 182): the deferred calls, last registered first.     *)
(***************************************************************************)
\* lines 173 and 170: saveTick.Stop(), stop()
DeferStop ==
    /\ pc = "defer_stop"
    /\ ticker' = FALSE
    /\ notifying' = FALSE
    /\ pc' = "defer_kill"
    /\ UNCHANGED <<procVars, fsVars, saveVars, startVars, cbVars, ctxDone,
                   tickC, tickVars, engAlive, engState>>

\* line 116: t.Kill(); then main has returned and the process exits with 0
DeferKill ==
    /\ pc = "defer_kill"
    /\ engAlive' = FALSE
    /\ pc' = "exited"
    /\ exitStatus' = 0
    /\ UNCHANGED <<run, env, fsVars, saveVars, startVars, cbVars, sigVars,
                   tickVars, engState>>

(***************************************************************************)
(* The environment of the process.                                         *)
(***************************************************************************)
\* Signal with a handler that calls save itself, wherever main is
Signal_SavesDirectly ==
    /\ exitStatus = -1
    /\ notifying
    /\ ~ctxDone
    /\ ctxDone' = TRUE
    /\ pc' = "save_get"
    /\ UNCHANGED <<procVars, fsVars, saveVars, startVars, cbVars, notifying,
                   ticker, tickC, tickVars, engAlive, engState>>

\* SIGINT or SIGTERM while NotifyContext is in effect: ctx is cancelled
Signal ==
    /\ exitStatus = -1
    /\ notifying
    /\ ~ctxDone
    /\ ctxDone' = TRUE
    /\ UNCHANGED <<pc, procVars, fsVars, saveVars, startVars, cbVars,
                   notifying, ticker, tickC, tickVars, engAlive, engState>>

\* the 30 s ticker fires; its channel holds one tick and drops the rest
TimerFire ==
    /\ exitStatus = -1
    /\ ticker
    /\ ~tickC
    /\ tickC' = TRUE
    /\ UNCHANGED <<pc, procVars, fsVars, saveVars, startVars, cbVars,
                   notifying, ctxDone, ticker, tickVars, engAlive, engState>>

\* the process is killed at any point (SIGKILL, a signal nothing handles,
\* loss of the machine): its memory is gone, the files stay as they are
Crash ==
    /\ exitStatus = -1
    /\ pc' = "crashed"
    /\ exitStatus' = 2
    /\ ResetProcess
    /\ preFile' = file
    /\ preTmp' = tmp
    /\ UNCHANGED <<run, env, fsVars>>

\* the bot is started again over the same files
Restart ==
    /\ exitStatus # -1
    /\ run < MaxRuns
    /\ run' = run + 1
    /\ pc' = "mkdir"
    /\ exitStatus' = -1
    /\ ResetProcess
    /\ preFile' = file
    /\ preTmp' = tmp
    /\ UNCHANGED <<env, fsVars>>

Next ==
    \/ MkdirAll
    \/ LoadSavedata
    \/ NewTox
    \/ SetSelf
    \/ Resolve
    \/ Bootstrap
    \/ RegisterRequest
    \/ RegisterMessage
    \/ NotifyContext
    \/ NewTicker
    \/ Select
    \/ DeliverRequest
    \/ DeliverMessage
    \/ CallbackReturn
    \/ IterateReturn
    \/ Sleep
    \/ SaveGet
    \/ SaveOpen
    \/ SaveWrite
    \/ SaveRename
    \/ SaveRemove
    \/ DeferStop
    \/ DeferKill
    \/ Signal
    \/ TimerFire
    \/ Crash
    \/ Restart

Spec == Init /\ [][Next]_vars

(***************************************************************************)
(* The start-up of main over every bootstrap list of ParseInputs, up to    *)
(* the end of the bootstrap loop.                                          *)
(***************************************************************************)
InitParse ==
    /\ pc = "mkdir"
    /\ run = 1
    /\ exitStatus = -1
    /\ env \in ParseInputs \cup ColonInputs
    /\ file = NoFile
    /\ tmp = NoFile
    /\ preFile = file
    /\ preTmp = tmp
    /\ lastSaved = [set |-> FALSE, bytes |-> <<>>, run |-> 0]
    /\ FreshProcess

NextParse ==
    \/ MkdirAll
    \/ LoadSavedata
    \/ NewTox
    \/ SetSelf
    \/ Resolve
    \/ Bootstrap

SpecParse == InitParse /\ [][NextParse]_vars

(***************************************************************************)
(* Properties of save and of the two files.                                *)
(***************************************************************************)
\* save has been entered and has not returned
InSave == pc \in {"save_get", "save_open", "save_write", "save_rename",
                  "save_remove"}

\* the latest call of save has returned to main and main has not moved on
SaveReturned ==
    /\ caller \in {"periodic", "final"}
    /\ ~InSave

\* C1: in every reachable state - inside save at any step, after any number
\* of periodic and final saves, and after a kill of the process at any step
\* followed by a restart - the save path holds what it held when the latest
\* save was entered (possibly nothing) or exactly the complete non-empty
\* savedata that save serialized; it never holds a strict prefix of it.
C1_SaveFileNeverPartial ==
    \/ file = preFile
    \/ /\ caller \in {"periodic", "final"}
       /\ data # <<>>
       /\ file = FileOf(data)
       /\ renamed = "ok"

\* C1 witness: in a restarted process a save is half way through writing
\* the temp file while the save path still holds the last complete snapshot.
C1_Witness ==
    /\ run = 2
    /\ pc = "save_write"
    /\ 0 < Len(tmp.bytes)
    /\ Len(tmp.bytes) < Len(data)
    /\ file.exists
    /\ file = preFile

\* C2: the shutdown branch calls save exactly once: no process makes more
\* than one final save, a final save is made only after ctx was cancelled
\* and only on the way out of the loop, and a process that has exited
\* cleanly has made exactly one.
C2_ExactlyOneFinalSave ==
    /\ finalSaves <= 1
    /\ pc = "exited" => finalSaves = 1
    /\ finalSaves = 1 =>
          /\ ctxDone
          /\ caller = "final"
          /\ InSave \/ pc \in {"defer_stop", "defer_kill", "exited"}
    /\ (caller = "final" /\ exitStatus = -1) => finalSaves = 1

\* C2 witness: the process has exited after a signal that found a save-timer
\* tick pending as well, and its one final save replaced the save file.
C2_Witness ==
    /\ pc = "exited"
    /\ finalSaves = 1
    /\ tickC
    /\ renamed = "ok"

\* C3 as stated: when save has returned after a failed rename, the save
\* path is as it was and the temp file does not exist.
C3_Original ==
    (SaveReturned /\ renamed = "failed") =>
        /\ file = preFile
        /\ ~tmp.exists

\* C3 amended: when save has returned after a failed rename, the save path
\* is as it was and os.Remove was called on the temp file once; the temp
\* file does not exist if that call succeeded, and still holds the complete
\* new savedata if it failed (the error is discarded).
C3_RenameFailure ==
    (SaveReturned /\ renamed = "failed") =>
        /\ file = preFile
        /\ removed \in {"ok", "failed"}
        /\ removed = "ok" => ~tmp.exists
        /\ removed = "failed" => tmp = FileOf(data)

\* C3 witness: a periodic save has returned after a failed rename over an
\* existing save file, and the temp file is gone.
C3_Witness ==
    /\ pc = "select"
    /\ caller = "periodic"
    /\ renamed = "failed"
    /\ removed = "ok"
    /\ file.exists
    /\ file # FileOf(data)
    /\ ~tmp.exists

\* C4: a save whose GetSavedata is empty touches no file: it is never at a
\* write, rename or remove step, and the save path and the temp path are
\* what they were when save was entered.
C4_EmptySaveWritesNothing ==
    (caller \in {"periodic", "final"} /\ pc # "save_get" /\ data = <<>>) =>
        /\ ~InSave
        /\ file = preFile
        /\ tmp = preTmp
        /\ renamed = "none"
        /\ removed = "none"

\* C4 witness: a periodic save of empty savedata has returned, with a save
\* file and a left-over temp file both still in place.
C4_Witness ==
    /\ pc = "select"
    /\ caller = "periodic"
    /\ data = <<>>
    /\ file.exists
    /\ tmp.exists

\* C5: when a save has completed its write and its rename, the save path
\* holds exactly the non-empty savedata serialized in that call; it keeps
\* holding it until the next completed save, across exits and kills; and a
\* later process whose read of the save path succeeds constructs the engine
\* from exactly those bytes.
C5_RoundTrip ==
    /\ renamed = "ok" => (data # <<>> /\ file = FileOf(data))
    /\ lastSaved.set => file = FileOf(lastSaved.bytes)
    /\ (engAlive /\ ~loadErr /\ lastSaved.set /\ lastSaved.run < run) =>
          engInit = [set |-> TRUE, bytes |-> lastSaved.bytes]

\* C5 witness: the second process runs on an engine constructed from the
\* two bytes the first process saved.
C5_Witness ==
    /\ run = 2
    /\ engAlive
    /\ ~loadErr
    /\ lastSaved = [set |-> TRUE, bytes |-> <<1, 2>>, run |-> 1]
    /\ engInit = [set |-> TRUE, bytes |-> <<1, 2>>]

(***************************************************************************)
(* Properties of the bootstrap list.                                       *)
(***************************************************************************)
\* the colon-separated fields of an entry
EntryFields(e) == Split(TrimSpace(e), ":")

\* the key of an entry: everything after the port, spaces removed
EntryKey(e) ==
    LET f == EntryFields(e)
    IN  RemoveAll(TrimSpace(Join(SubSeq(f, 3, Len(f)), ":")), " ")

\* the value of a string of decimal digits
RECURSIVE DecimalValue(_)
DecimalValue(d) ==
    IF d = <<>> THEN 0
    ELSE DecimalValue(SubSeq(d, 1, Len(d) - 1)) * 10 + DigitVal(d[Len(d)])

IsUint16(d) ==
    /\ d # <<>>
    /\ \A i \in 1..Len(d) : d[i] \in Digits
    /\ DecimalValue(d) < 65536

IsHex(k) ==
    /\ \A i \in 1..Len(k) : k[i] \in Digits \cup HexLetters
    /\ \E n \in 0..Len(k) : Len(k) = 2 * n

\* an entry is valid: three fields or more, a 16-bit port, a hex key
ValidEntry(e) ==
    LET f == EntryFields(e)
    IN  /\ Len(f) >= 3
        /\ IsUint16(TrimSpace(f[2]))
        /\ IsHex(EntryKey(e))

\* the nodes of the valid entries of s, in input order
ExpectedNode(e) ==
    LET f == EntryFields(e)
    IN  [host |-> TrimSpace(f[1]),
         port |-> DecimalValue(TrimSpace(f[2])),
         key |-> EntryKey(e)]

ExpectedNodes(s) ==
    LET valid == SelectSeq(Split(TrimSpace(s), ","), ValidEntry)
    IN  [i \in 1..Len(valid) |-> ExpectedNode(valid[i])]

AfterResolve == pc \in {"bootstrap", "cbreq"}

\* C6: for every list of ParseInputs, parseBootstrapEnv returns exactly the
\* nodes of the valid entries (three or more colon-separated fields, a port
\* that is an unsigned 16-bit decimal, a key that is hex once its spaces are
\* removed), in input order, each with the entry's host (trimmed), the
\* number its port denotes and its key (spaces removed); an invalid entry
\* removes or moves no other entry.  When that list is not empty it is the
\* list main keeps.
C6_ParserReturnsValidEntries ==
    AfterResolve =>
        LET expected == ExpectedNodes(env)
        IN  /\ parseBootstrapEnv(env) = expected
            /\ expected # <<>> => nodes = expected

\* C6 witness: "h:80:AB", a skipped entry, " g : 65535 : a B " parse to the
\* two nodes h:80 and g:65535 in that order.
C6_Witness ==
    /\ pc = "bootstrap"
    /\ Len(Split(env, ",")) = 3
    /\ parseItem(Split(env, ",")[2]) = <<>>
    /\ nodes = << [host |-> <<"h">>, port |-> 80, key |-> <<"A", "B">>],
                  [host |-> <<"g">>, port |-> 65535, key |-> <<"a", "B">>] >>

\* C7: when the bootstrap loop has ended, the Bootstrap calls made are: the
\* two built-in nodes in their order when the variable is empty, blank or
\* holds no valid entry; otherwise exactly the parsed nodes in their order,
\* none of them a built-in node (no input of the model names one).
C7_DefaultsOnlyWhenNoneValid ==
    pc = "cbreq" =>
        LET expected == ExpectedNodes(env)
        IN  IF expected = <<>>
            THEN /\ Len(bootCalls) = 2
                 /\ bootCalls = defaultBootstrap
                 /\ bootCalls[1].port = 33445
                 /\ bootCalls[2].port = 33445
                 /\ bootCalls[1].host # bootCalls[2].host
            ELSE /\ bootCalls = expected
                 /\ \A i \in 1..Len(bootCalls) :
                        \A j \in 1..Len(defaultBootstrap) :
                            bootCalls[i] # defaultBootstrap[j]

\* C7 witness: a variable that is not blank but holds only invalid entries
\* has led to Bootstrap calls on the two built-in nodes.
C7_Witness ==
    /\ pc = "cbreq"
    /\ TrimSpace(env) # <<>>
    /\ Len(Split(env, ",")) >= 2
    /\ bootCalls = defaultBootstrap

(***************************************************************************)
(* Properties of the friend-message callback.                              *)
(***************************************************************************)
\* the reply the dispatch rules give for a message text
ExpectedReply(text) ==
    LET t == TrimSpace(text)
    IN  CASE t = <<"/", "p", "i", "n", "g">> -> <<"p", "o", "n", "g">>
          [] t = <<"/", "i", "d">> ->
                <<"m", "y", " ", "t", "o", "x", " ", "i", "d", ":", " ",
                  "7", "6", "A", "B">>
          [] OTHER -> <<"e", "c", "h", "o", ":", " ">> \o text

\* C8: for every inbound friend message the callback makes exactly one
\* FriendSendMessage call, to the friend the message came from: "pong" when
\* the trimmed text is "/ping", "my tox id: " and the own address when it is
\* "/id", otherwise "echo: " and the untrimmed text; "/ping x" and "/PING"
\* are echoed.
C8_OneReplyPerMessage ==
    inEvent.kind = "message" =>
        /\ accepts = <<>>
        /\ sends = <<[friend |-> inEvent.friend,
                      text |-> ExpectedReply(inEvent.text)]>>
        /\ inEvent.text \in {<<"/", "p", "i", "n", "g", " ", "x">>,
                             <<"/", "P", "I", "N", "G">>} =>
              sends[1].text = <<"e", "c", "h", "o", ":", " ">> \o inEvent.text

\* C8 witness: friend 1 sent "/ping x" and was sent "echo: /ping x".
C8_Witness ==
    /\ inEvent = [kind |-> "message", friend |-> 1,
                  text |-> <<"/", "p", "i", "n", "g", " ", "x">>]
    /\ sends = <<[friend |-> 1,
                  text |-> <<"e", "c", "h", "o", ":", " ", "/", "p", "i", "n",
                             "g", " ", "x">>]>>

HelloPadded == <<" ", " ", "h", "e", "l", "l", "o", " ", " ">>

\* C9 as stated: the message "  hello  " is answered "echo: hello".
C9_Original ==
    (inEvent.kind = "message" /\ inEvent.text = HelloPadded) =>
        sends[1].text = <<"e", "c", "h", "o", ":", " ", "h", "e", "l", "l", "o">>

\* C9 amended: the message "  hello  " is answered "echo:   hello  ": the
\* text is trimmed only for matching, and the echo carries it untrimmed.
C9_EchoKeepsWhitespace ==
    (inEvent.kind = "message" /\ inEvent.text = HelloPadded) =>
        sends = <<[friend |-> inEvent.friend,
                   text |-> <<"e", "c", "h", "o", ":", " ", " ", " ", "h",
                              "e", "l", "l", "o", " ", " ">>]>>

\* C9 witness: friend 0 sent "  hello  " and the callback has replied.
C9_Witness ==
    /\ pc = "iterate"
    /\ inEvent = [kind |-> "message", friend |-> 0, text |-> HelloPadded]
    /\ Len(sends) = 1
    /\ Len(sends[1].text) = 15

(***************************************************************************)
(* Properties of the life cycle.                                           *)
(***************************************************************************)
StartPcs == {"mkdir", "load", "newtox", "setself", "resolve", "bootstrap",
             "cbreq", "cbmsg", "notify", "newticker"}

\* the positions at which main or save calls into the engine
EngineCallPcs == {"setself", "bootstrap", "cbreq", "cbmsg", "iterate",
                  "sleep", "save_get"}

\* the life-cycle state of the process; "Dead" is a start-up abort or a kill
Phase ==
    CASE pc \in StartPcs -> "Starting"
      [] pc \in {"select", "iterate", "sleep"} -> "Running"
      [] InSave -> IF caller = "final" THEN "Stopping" ELSE "Running"
      [] pc \in {"defer_stop", "defer_kill"} -> "Stopping"
      [] pc = "exited" -> "Stopped"
      [] OTHER -> "Dead"

PhaseMoves ==
    { <<"Starting", "Starting">>, <<"Starting", "Running">>,
      <<"Running", "Running">>, <<"Running", "Stopping">>,
      <<"Stopping", "Stopping">>, <<"Stopping", "Stopped">>,
      <<"Stopped", "Stopped">>,
      <<"Starting", "Dead">>, <<"Running", "Dead">>, <<"Stopping", "Dead">>,
      <<"Dead", "Dead">> }

C10_State ==
    /\ Phase = "Running" =>
          /\ nodes # <<>>
          /\ bootCalls = nodes
          /\ cbRequest
          /\ cbMessage
    /\ pc \in EngineCallPcs => engAlive
    /\ Phase = "Stopped" <=> exitStatus = 0
    /\ Phase = "Stopped" => (~engAlive /\ finalSaves = 1 /\ ~InSave)
    /\ Phase \in {"Starting", "Running", "Stopping"} <=> exitStatus = -1

C10_Step ==
    run' = run =>
        /\ <<Phase, Phase'>> \in PhaseMoves
        /\ (engAlive /\ ~engAlive' /\ Phase' # "Dead") =>
              /\ pc = "defer_kill"
              /\ Phase' = "Stopped"
              /\ finalSaves = 1

\* C10: within one process the life cycle only moves Starting -> Running ->
\* Stopping -> Stopped (or ends in an abort or a kill), never backwards and
\* never past a state: ticks and periodic saves happen only when every
\* bootstrap call has been made and both callbacks are registered, the
\* engine is released only after the one final save has returned, every
\* engine call finds the engine alive, and a process that reaches Stopped
\* has exit status 0.
C10_LifeCycle == []C10_State /\ [][C10_Step]_vars

\* C10 witness: a process has gone through to Stopped with status 0 after a
\* final save whose rename failed.
C10_Witness ==
    /\ Phase = "Stopped"
    /\ exitStatus = 0
    /\ ~engAlive
    /\ renamed = "failed"

(***************************************************************************)
(* Properties of start-up failures.                                        *)
(***************************************************************************)
\* C11: a process ends with status 1 exactly when MkdirAll failed or NewTox
\* returned nil, and then it has made no Bootstrap call, registered no
\* callback, installed no signal context or ticker, run no tick and entered
\* no save: the save path and the temp path are what they were when the
\* process started.  A process that ends with status 0 got past start-up.
C11_FatalStartupAbortsEarly ==
    /\ exitStatus = 1 <=> pc = "aborted"
    /\ pc = "aborted" =>
          /\ ~engAlive
          /\ nodes = <<>>
          /\ bootCalls = <<>>
          /\ ~cbRequest
          /\ ~cbMessage
          /\ ~notifying
          /\ ~ticker
          /\ caller = "none"
          /\ finalSaves = 0
          /\ inEvent = NoEvent
          /\ sends = <<>>
          /\ accepts = <<>>
          /\ file = preFile
          /\ tmp = preTmp
    /\ exitStatus = 0 => (cbRequest /\ cbMessage /\ bootCalls = nodes)

\* C11 witness: in a restarted process NewTox returned nil on the savedata
\* read from an existing save file, next to a left-over temp file.
C11_Witness ==
    /\ run = 2
    /\ pc = "aborted"
    /\ exitStatus = 1
    /\ optsData.set
    /\ file.exists
    /\ tmp.exists

(***************************************************************************)
(* Properties of the loop.                                                 *)
(***************************************************************************)
\* a step of the running process that is not its being killed
ProcessStep == run' = run /\ exitStatus = -1 /\ exitStatus' # 2

\* something is pending at the select
Pending == ctxDone \/ tickC

C12_Step ==
    ProcessStep =>
        /\ (pc = "select" /\ pc' = "iterate") => ~Pending
        /\ (pc = "select" /\ Pending /\ pc' # pc) =>
              /\ pc' = "save_get"
              /\ caller' = "final" => ctxDone
              /\ caller' = "periodic" => (tickC /\ ~tickC')
              /\ caller' \in {"final", "periodic"}
        /\ pc = "iterate" => pc' \in {"iterate", "sleep"}
        /\ pc = "sleep" => pc' \in {"sleep", "select"}
        /\ (pc' = "save_get" /\ pc # "save_get") => pc = "select"

\* C12: a tick is started only on a pass of the loop on which neither ctx
\* is cancelled nor a save-timer tick is pending; on a pass on which one is
\* pending a pending one is serviced (save is entered) and no tick starts;
\* and a tick in progress goes through Iterate and Sleep back to the select
\* before any save is entered, whatever became pending meanwhile.
C12_TickOnlyWhenNothingPending == [][C12_Step]_vars

\* C12 witness: the process sleeps at the end of a tick while a signal and
\* a save-timer tick are both pending.
C12_Witness ==
    /\ pc = "sleep"
    /\ ctxDone
    /\ tickC

\* C13 as stated: on a pass on which ctx is cancelled and a save-timer tick
\* is pending, the shutdown branch is taken, not the periodic save.
C13_Original ==
    [][(ProcessStep /\ pc = "select" /\ ctxDone /\ tickC /\ pc' # pc) =>
            caller' = "final"]_vars

\* C13 amended: the select has no order among its ready cases.  On a pass
\* on which ctx is cancelled the shutdown branch can be taken and no tick
\* can start; if a save-timer tick is pending as well, the periodic save can
\* be taken instead, so one periodic save may still run after the signal
\* became pending.  With only the signal pending the shutdown branch is the
\* only one.
C13_NoOrderAmongReadyCases ==
    (pc = "select" /\ ctxDone) =>
        /\ ENABLED (Select /\ caller' = "final")
        /\ ~ENABLED (Select /\ caller' = "none")
        /\ tickC <=> ENABLED (Select /\ caller' = "periodic")

\* C13 witness: a periodic save has been entered while ctx was cancelled.
C13_Witness ==
    /\ pc = "save_get"
    /\ caller = "periodic"
    /\ ctxDone
    /\ finalSaves = 0

C14_State ==
    /\ (inEvent # NoEvent \/ sends # <<>> \/ accepts # <<>>) => pc = "iterate"
    /\ (InSave \/ pc \in {"defer_stop", "defer_kill"}) =>
          (caller \in {"periodic", "final"} /\ inEvent = NoEvent)
    /\ pc \in {"iterate", "sleep"} => (caller = "none" /\ engAlive)

C14_Step ==
    ProcessStep =>
        /\ ((ctxDone' # ctxDone) \/ (tickC' /\ ~tickC)) =>
              UNCHANGED <<pc, engAlive, engState, engInit, file, tmp, caller,
                          data, inEvent, sends, accepts, finalSaves>>
        /\ (inEvent' # inEvent \/ sends' # sends \/ accepts' # accepts) =>
              (pc = "iterate" /\ pc' = "iterate")
        /\ (pc' = "save_get" /\ pc # "save_get") => pc = "select"
        /\ (engAlive /\ ~engAlive') => pc = "defer_kill"

\* C14: the delivery of a signal and the firing of the ticker change only
\* the pending marks; the friend callbacks run only inside Iterate; save is
\* entered only from the select and the engine is released only by the
\* deferred Kill, so no state has a callback under way together with a save
\* or the release.
C14_OneActivityOnTheEngine == []C14_State /\ [][C14_Step]_vars

\* C14 witness: the message callback is running inside Iterate while a
\* signal and a save-timer tick are pending and no save has been entered.
C14_Witness ==
    /\ pc = "iterate"
    /\ inEvent.kind = "message"
    /\ Len(sends) = 1
    /\ ctxDone
    /\ tickC
    /\ caller = "none"

(***************************************************************************)
(* Properties of loading at start-up.                                      *)
(***************************************************************************)
\* the save file can be used as prior state: present, read, not empty
Usable == file.exists /\ ~loadErr /\ file.bytes # <<>>

C15_State ==
    /\ pc = "newtox" =>
          /\ exitStatus = -1
          /\ optsData = IF Usable THEN [set |-> TRUE, bytes |-> file.bytes]
                                  ELSE NoData
          /\ ENABLED (NewTox /\ pc' = "setself")
    /\ engAlive => engInit = optsData
    /\ pc = "setself" => (optsData.set => engState = file.bytes)

C15_Step ==
    ProcessStep =>
        /\ pc = "load" => (pc' = "newtox" /\ exitStatus' = -1)
        /\ (pc = "newtox" /\ pc' # "aborted") => (pc' = "setself" /\ engAlive')

\* C15: reading the save file never ends the process, whatever the read
\* returns; after it the options carry prior state exactly when the file was
\* there, was read without error and has at least one byte, and then they
\* carry the file's bytes; the engine is constructed from those options, and
\* its construction can go on to the rest of start-up in every case.
C15_LoadNeverFails == []C15_State /\ [][C15_Step]_vars

\* C15 witness: the loop is reached with an engine constructed without
\* prior state although the save file is there: it is empty, or its read
\* failed.
C15_Witness ==
    /\ pc = "select"
    /\ engAlive
    /\ engInit = NoData
    /\ file.exists
    /\ preFile = file
    /\ (loadErr \/ file.bytes = <<>>)

(***************************************************************************)
(* Properties of shutdown.                                                 *)
(***************************************************************************)
C19_State ==
    /\ caller = "final" =>
          /\ InSave \/ pc \in {"defer_stop", "defer_kill", "exited"}
          /\ inEvent = NoEvent /\ sends = <<>> /\ accepts = <<>>
          /\ finalSaves = 1
          /\ exitStatus \in {-1, 0}
          /\ exitStatus = 0 <=> pc = "exited"
    /\ pc \in {"defer_stop", "defer_kill", "exited"} => caller = "final"
    /\ pc \in {"defer_kill", "exited"} => (~ticker /\ ~notifying)
    /\ pc = "exited" => ~engAlive

C19_Step ==
    (ProcessStep /\ caller = "final") =>
        /\ caller' = "final"
        /\ finalSaves' = finalSaves
        /\ UNCHANGED <<engState, inEvent, sends, accepts>>
        /\ pc' \notin {"select", "iterate", "sleep", "aborted"}
        /\ (InSave /\ ~InSave') => pc' = "defer_stop"
        /\ pc = "defer_stop" => pc' \in {"defer_stop", "defer_kill"}
        /\ pc = "defer_kill" => pc' \in {"defer_kill", "exited"}

\* C19: from the step on which the select takes the shutdown case, the
\* process is in the one final save, in the deferred calls, or has exited:
\* no Iterate, no callback, no accept, no reply and no second save; whichever
\* way the final save returns (renamed, failed, or skipped as empty), the
\* deferred calls follow and the exit status is 0.
C19_AfterShutdownBranch == []C19_State /\ [][C19_Step]_vars

\* C19 witness: the process has exited with status 0 after a final save
\* whose rename failed and left the save file as it was.
C19_Witness ==
    /\ pc = "exited"
    /\ exitStatus = 0
    /\ caller = "final"
    /\ renamed = "failed"
    /\ file = preFile
    /\ tickC

(***************************************************************************)
(* Properties of entries with more than three fields.                      *)
(***************************************************************************)
NoColon(s) == \A i \in 1..Len(s) : s[i] # ":"

WellFormedNode(n) == IsHex(n.key) /\ NoColon(n.host) /\ n.port \in 0..MaxUint16

\* C20: for every list of ParseInputs and ColonInputs, an item of more than
\* three colon-separated fields gives no node, so parseBootstrapEnv returns
\* at most as many nodes as there are items of exactly three fields; every
\* node it returns, and every node main keeps, has a key of an even number
\* of hex digits and nothing else, and a host without ':'.
C20_NoNodeFromExtraSegments ==
    AfterResolve =>
        LET items == Split(TrimSpace(env), ",")
            parsed == parseBootstrapEnv(env)
            three == {i \in 1..Len(items) : Len(EntryFields(items[i])) = 3}
        IN  /\ \A i \in 1..Len(items) :
                  Len(EntryFields(items[i])) > 3 => parseItem(items[i]) = <<>>
            /\ Len(parsed) <= Cardinality(three)
            /\ \A j \in 1..Len(parsed) : WellFormedNode(parsed[j])
            /\ \A j \in 1..Len(nodes) : WellFormedNode(nodes[j])

\* C20 witness: the variable holds an entry of more than three fields whose
\* first three fields alone would be valid, and a valid entry; only the
\* latter is a node.
C20_Witness ==
    /\ pc = "bootstrap"
    /\ \E i \in 1..Len(Split(env, ",")) :
          /\ Len(EntryFields(Split(env, ",")[i])) > 3
          /\ parseItem_KeyThirdField(Split(env, ",")[i]) # <<>>
    /\ Len(nodes) = 1
    /\ nodes = parseBootstrapEnv(env)

(***************************************************************************)
(* The two entry points.                                                   *)
(***************************************************************************)
\* C18: for the same value of TOX_BOOTSTRAP_NODES the root command has made,
\* when its bootstrap loop has ended, the Bootstrap calls the cmd/toxcbt
\* entry point makes: the same nodes in the same order.
C18_Original ==
    pc = "cbreq" => bootCalls = cmdBootstrapCalls(bootstrapNodes, <<>>)

(***************************************************************************)
(* The process left to run: nothing kills it, every call returns, and an   *)
(* operation on the file system that is tried again and again does not     *)
(* fail every time.                                                        *)
(***************************************************************************)
\* a first start: TOX_BOOTSTRAP_NODES unset, no save file
InitLive ==
    /\ pc = "mkdir"
    /\ run = 1
    /\ exitStatus = -1
    /\ env = <<>>
    /\ file = NoFile
    /\ tmp = NoFile
    /\ preFile = file
    /\ preTmp = tmp
    /\ lastSaved = [set |-> FALSE, bytes |-> <<>>, run |-> 0]
    /\ FreshProcess

\* the steps of main and of save
ProcessNext ==
    \/ MkdirAll
    \/ LoadSavedata
    \/ NewTox
    \/ SetSelf
    \/ Resolve
    \/ Bootstrap
    \/ RegisterRequest
    \/ RegisterMessage
    \/ NotifyContext
    \/ NewTicker
    \/ Select
    \/ DeliverRequest
    \/ DeliverMessage
    \/ CallbackReturn
    \/ IterateReturn
    \/ Sleep
    \/ SaveGet
    \/ SaveOpen
    \/ SaveWrite
    \/ SaveRename
    \/ SaveRemove
    \/ DeferStop
    \/ DeferKill

\* the steps of main from the start of the ticker on
LoopNext ==
    \/ NewTicker
    \/ Select
    \/ DeliverRequest
    \/ DeliverMessage
    \/ CallbackReturn
    \/ IterateReturn
    \/ Sleep
    \/ SaveGet
    \/ SaveOpen
    \/ SaveWrite
    \/ SaveRename
    \/ SaveRemove
    \/ DeferStop
    \/ DeferKill

NextLive ==
    \/ ProcessNext
    \/ Signal
    \/ TimerFire

\* the select takes the shutdown case
TakeDone == Select /\ caller' = "final"

\* the steps of save that go on rather than return on an error
OpenOk == SaveOpen /\ pc' = "save_write"

WriteOk(k) ==
    /\ SaveWrite
    /\ Len(tmp.bytes) = k
    /\ caller = "periodic"
    /\ pc' \in {"save_write", "save_rename"}

RenameOk == SaveRename /\ renamed' = "ok"

\* main is scheduled once signals are handled (nothing is asked of the steps
\* before); t.Iterate returns; a select that finds ctx cancelled
\* again and again takes that case in the end (the runtime picks among the
\* ready cases at random); failures of the file system are transient
Fairness ==
    /\ WF_vars(LoopNext)
    /\ SF_vars(IterateReturn)
    /\ SF_vars(TakeDone)
    /\ SF_vars(OpenOk)
    /\ \A k \in 0..(MaxBlobLen + 1) : SF_vars(WriteOk(k))
    /\ SF_vars(RenameOk)

SpecLive == InitLive /\ [][NextLive]_vars /\ Fairness


\* the process has ended as after a shutdown: one final save was entered,
\* the engine is released, the exit status is 0
Stopped ==
    /\ pc = "exited"
    /\ exitStatus = 0
    /\ finalSaves = 1
    /\ ~engAlive

\* C17: under SpecLive (no kill, every call returns), from any state in
\* which ctx is cancelled the process reaches Stopped, also when the ticker
\* fires whenever its channel is empty.
C17_ShutdownTerminates == ctxDone ~> Stopped

\* C17 witness: the process has exited after the signal was followed by a
\* periodic save, with a save-timer tick still pending at the exit.
C17_Witness ==
    /\ Stopped
    /\ ctxDone
    /\ tickC
    /\ lastSaved.set
    /\ lastSaved.run = run
    /\ renamed = "none"
    /\ data # <<>>


\* the position of a step of save in the order of lines 197-208
SaveRank ==
    CASE pc = "save_get" -> 1
      [] pc = "save_open" -> 2
      [] pc = "save_write" -> 3
      [] pc = "save_rename" -> 4
      [] pc = "save_remove" -> 5
      [] OTHER -> 0

\* the latest periodic save has returned to the loop without the rename
PeriodicFailed ==
    /\ pc = "select"
    /\ caller = "periodic"
    /\ data # <<>>
    /\ renamed # "ok"

\* the latest periodic save has put the complete savedata at the save path
PeriodicReplaced ==
    /\ pc = "select"
    /\ caller = "periodic"
    /\ renamed = "ok"
    /\ file = FileOf(data)
    /\ data # <<>>

C16_Step ==
    (ProcessStep /\ InSave /\ (pc' # pc \/ tmp' # tmp)) =>
        /\ InSave' => SaveRank' >= SaveRank
        /\ (InSave' /\ SaveRank' = SaveRank) =>
              (pc = "save_write" /\ Len(tmp'.bytes) = Len(tmp.bytes) + 1)
        /\ (~InSave' /\ caller = "periodic") =>
              (pc' = "select" /\ exitStatus' = -1 /\ engAlive')
        /\ (~InSave' /\ renamed' # "ok") => file' = preFile

C16_NextAttempt ==
    (ProcessStep /\ pc' = "save_get" /\ pc # "save_get") =>
        /\ pc = "select"
        /\ \/ caller' = "periodic" /\ tickC
           \/ caller' = "final" /\ ctxDone

\* C16: inside one call of save no step is done twice: the steps go forward
\* in the order get, open, write, rename, remove (the write one byte
\* further each time), and a failure at open, write or rename makes the call
\* return; a periodic call returns to the select with the process running
\* and the save file as it was; save is entered again only by the select, on
\* a pending save-timer tick or on ctx cancelled.  Under SpecLive (failures
\* transient), in every behaviour in which periodic saves with savedata to
\* write go on for ever, a failed periodic save is followed by a periodic
\* save that leaves the complete savedata at the save path.
C16_FailedSaveNotRetried ==
    /\ [][C16_Step /\ C16_NextAttempt]_vars
    /\ ([]<>(pc = "save_open" /\ caller = "periodic")) =>
           (PeriodicFailed ~> PeriodicReplaced)

\* C16 witness: a periodic save has replaced the save file, and at its entry
\* the temporary file of an earlier, failed save was still there.
C16_Witness ==
    /\ PeriodicReplaced
    /\ preTmp.exists
    /\ ~tmp.exists
    /\ ~ctxDone

====
